---- MODULE Spec2Model ----
(***************************************************************************)
(* A model of ChessAI.py: the board, the move-legality functions, the      *)
(* in-place move execution (make_move), the terminal-state classification  *)
(* (check_game_end), the negamax search (all_moves, negamax, bot_plays)    *)
(* and the main loop's board click and AI turn.                            *)
(*                                                                         *)
(* Python functions that write to the list they are handed (the king-move  *)
(* probe of is_legal_move_king, make_move) are modelled as operators that  *)
(* return a record holding the return value, the board as the function     *)
(* leaves it, and the set of squares of that board it assigned to.         *)
(***************************************************************************)
EXTENDS Integers, Sequences, FiniteSets, TLC

VARIABLES
    board,            \* the 8x8 list of lists: board[r][c] is "" or a piece code
    turn,             \* side the caller passes as turn: "w" or "b"
    move_history,     \* list of formatted move records
    captured_pieces,  \* dict 'w' / 'b' -> list of captured piece codes
    winner_text,      \* the global written by check_game_end
    legal_moves,      \* the caller's copy of the list all_moves returned for turn
    pc,               \* "start", "listed", "main" (in the main loop), or the name of the function that just returned
    call,             \* the arguments of that call, and the values its inputs had
    ret,              \* what the call returned, and what it did on the way
    game_ended,       \* the main loop's flag: no more moves are taken
    game_fsm_state,   \* "select" or "move": what the next board click means
    move_start        \* the square selected by the last "select" click, or None

\* The main loop's own state
main_loop == <<game_ended, game_fsm_state, move_start>>

vars == <<board, turn, move_history, captured_pieces, winner_text, legal_moves, pc, call, ret,
          game_ended, game_fsm_state, move_start>>

-----------------------------------------------------------------------------
(* Board representation *)

N == 8

Rows == 0 .. (N - 1)

Squares == Rows \X Rows

Pieces == {"wP", "wN", "wB", "wR", "wQ", "wK", "bP", "bN", "bB", "bR", "bQ", "bK"}

\* piece[0]
side_of(piece) == IF piece \in {"wP", "wN", "wB", "wR", "wQ", "wK"} THEN "w" ELSE "b"

\* piece[1]
kind_of(piece) ==
    CASE piece \in {"wP", "bP"} -> "P"
      [] piece \in {"wN", "bN"} -> "N"
      [] piece \in {"wB", "bB"} -> "B"
      [] piece \in {"wR", "bR"} -> "R"
      [] piece \in {"wQ", "bQ"} -> "Q"
      [] OTHER -> "K"

abs(x) == IF x < 0 THEN -x ELSE x

max(x, y) == IF x >= y THEN x ELSE y

EmptyBoard == [r \in Rows |-> [c \in Rows |-> ""]]

create_initial_board ==
    [r \in Rows |->
        CASE r = 0 -> [c \in Rows |-> <<"bR", "bN", "bB", "bQ", "bK", "bB", "bN", "bR">>[c + 1]]
          [] r = 1 -> [c \in Rows |-> "bP"]
          [] r = 6 -> [c \in Rows |-> "wP"]
          [] r = 7 -> [c \in Rows |-> <<"wR", "wN", "wB", "wQ", "wK", "wB", "wN", "wR">>[c + 1]]
          [] OTHER -> [c \in Rows |-> ""]]

switch_turn(t) == IF t = "w" THEN "b" ELSE "w"

col_to_file(col) == <<"a", "b", "c", "d", "e", "f", "g", "h">>[col + 1]

row_to_rank(row) == ToString(N - row)

format_move(start_pos, end_pos, piece) ==
    piece \o " " \o col_to_file(start_pos[2]) \o row_to_rank(start_pos[1])
          \o " to " \o col_to_file(end_pos[2]) \o row_to_rank(end_pos[1])

in_bounds(r, c) == 0 <= r /\ r < N /\ 0 <= c /\ c < N

-----------------------------------------------------------------------------
(* Path validation and king lookup *)

RECURSIVE path_walk(_, _, _, _, _, _, _)
path_walk(b, r, c, dr, dc, r2, c2) ==
    IF r = r2 /\ c = c2 THEN TRUE
    ELSE IF b[r][c] # "" THEN FALSE
    ELSE path_walk(b, r + dr, c + dc, dr, dc, r2, c2)

is_path_clear(b, start, end) ==
    LET r1 == start[1]
        c1 == start[2]
        r2 == end[1]
        c2 == end[2]
        dr == IF r1 # r2 THEN (r2 - r1) \div max(1, abs(r2 - r1)) ELSE 0
        dc == IF c1 # c2 THEN (c2 - c1) \div max(1, abs(c2 - c1)) ELSE 0
    IN  path_walk(b, r1 + dr, c1 + dc, dr, dc, r2, c2)

None == <<>>

\* The loops "for r in range(8): for c in range(8)" visit the squares in the
\* order of their numbers r * 8 + c.
SquareAt(i) == <<i \div N, i % N>>

LastSquare == N * N - 1

AllSquares == [i \in 1 .. N * N |-> SquareAt(i - 1)]

First(S) == CHOOSE i \in S : \A j \in S : i <= j

\* The numbers, from lo on, of the squares that hold a piece of color t
Held(b, t, lo) ==
    {i \in lo .. LastSquare : b[i \div N][i % N] # "" /\ side_of(b[i \div N][i % N]) = t}

\* The first square, in scan order, that holds the king
find_king(b, t) ==
    LET king == t \o "K"
        held == {i \in 0 .. LastSquare : b[i \div N][i % N] = king}
    IN  IF held = {} THEN None ELSE SquareAt(First(held))

-----------------------------------------------------------------------------
(* Piece movement validation *)

is_legal_move_pawn(b, start, end, t) ==
    LET r1 == start[1]
        c1 == start[2]
        r2 == end[1]
        c2 == end[2]
        direction == IF t = "w" THEN -1 ELSE 1
        start_row == IF t = "w" THEN 6 ELSE 1
        target == b[r2][c2]
    IN  IF c1 = c2
        THEN \/ (r2 - r1 = direction /\ target = "")
             \/ (r1 = start_row /\ r2 - r1 = 2 * direction
                    /\ b[r1 + direction][c1] = "" /\ target = "")
        ELSE abs(c2 - c1) = 1 /\ r2 - r1 = direction /\ target # ""
                /\ side_of(target) # t

is_legal_move_rook(b, start, end, t) ==
    LET target == b[end[1]][end[2]]
    IN  IF start[1] # end[1] /\ start[2] # end[2] THEN FALSE
        ELSE IF ~is_path_clear(b, start, end) THEN FALSE
        ELSE target = "" \/ side_of(target) # t

is_legal_move_bishop(b, start, end, t) ==
    LET target == b[end[1]][end[2]]
    IN  IF abs(end[1] - start[1]) # abs(end[2] - start[2]) THEN FALSE
        ELSE IF ~is_path_clear(b, start, end) THEN FALSE
        ELSE target = "" \/ side_of(target) # t

is_legal_move_queen(b, start, end, t) ==
    is_legal_move_rook(b, start, end, t) \/ is_legal_move_bishop(b, start, end, t)

knight_moves == {<<2, 1>>, <<2, -1>>, <<-2, 1>>, <<-2, -1>>,
                 <<1, 2>>, <<1, -2>>, <<-1, 2>>, <<-1, -2>>}

is_legal_move_knight(b, start, end, t) ==
    LET target == b[end[1]][end[2]]
    IN  IF <<end[1] - start[1], end[2] - start[2]>> \notin knight_moves THEN FALSE
        ELSE target = "" \/ side_of(target) # t

\* What a legality function hands back: its return value, the board list as it
\* leaves it, and the squares of that list it assigned to on the way.
Result(r, b, w) == [ret |-> r, board |-> b, written |-> w]

RECURSIVE is_legal_move_basic(_, _, _, _)

\* The body of the loops of is_square_attacked for the piece on square number i:
\* ret is TRUE where the function returns True, FALSE where the loop goes on.
attack_at(b, i, square, attacker_color) ==
    LET r == i \div N
        c == i % N
        piece == b[r][c]
        r_target == square[1]
        c_target == square[2]
        direction == IF attacker_color = "w" THEN -1 ELSE 1
    IN  IF /\ kind_of(piece) = "P"
           /\ r_target = r + direction
           /\ abs(c_target - c) = 1
        THEN Result(TRUE, b, {})
        ELSE IF /\ kind_of(piece) = "N"
                /\ abs(r_target - r) \in {1, 2}
                /\ abs(c_target - c) \in {1, 2}
                /\ abs(r_target - r) # abs(c_target - c)
        THEN Result(TRUE, b, {})
        ELSE is_legal_move_basic(b, <<r, c>>, square, attacker_color)

\* The squares the turns of a loop up to and including number at assigned to
Before(tried, at) == UNION {tried[i].written : i \in {j \in DOMAIN tried : j <= at}}

\* A loop that stopped with res, or went on and ended with rest
Followed(before, rest) == Result(rest.ret, rest.board, before \cup rest.written)

\* The loops of is_square_attacked from square number lo on. Squares that hold
\* no piece of attacker_color are skipped ("continue"). Every turn of the loop
\* works on the board the turn before left: the turns up to the first one that
\* returns True or leaves the board changed all see b (tried holds what they
\* do), and the loop goes on from there on the board that turn left.
RECURSIVE attack_from(_, _, _, _)
attack_stop(tried, at, square, attacker_color) ==
    IF tried[at].ret THEN Result(TRUE, tried[at].board, Before(tried, at))
    ELSE Followed(Before(tried, at),
                  attack_from(tried[at].board, at + 1, square, attacker_color))

attack_scan(b, tried, square, attacker_color) ==
    LET stops == {i \in DOMAIN tried : tried[i].ret \/ tried[i].board # b}
    IN  IF stops = {}
        THEN Result(FALSE, b, UNION {tried[i].written : i \in DOMAIN tried})
        ELSE attack_stop(tried, First(stops), square, attacker_color)

attack_from(b, lo, square, attacker_color) ==
    attack_scan(b,
                [i \in Held(b, attacker_color, lo) |->
                    attack_at(b, i, square, attacker_color)],
                square, attacker_color)

is_square_attacked(b, square, attacker_color) ==
    attack_from(b, 0, square, attacker_color)

is_king_in_check(b, king_color) ==
    LET king_pos == find_king(b, king_color)
        attacker_color == IF king_color = "b" THEN "w" ELSE "b"
    IN  IF king_pos = None THEN Result(FALSE, b, {})
        ELSE is_square_attacked(b, king_pos, attacker_color)

\* The board with the piece of start put on end
Moved(b, start, end) ==
    [[b EXCEPT ![end[1]][end[2]] = b[start[1]][start[2]]]
        EXCEPT ![start[1]][start[2]] = ""]

\* The board with piece put back on start and captured put back on end
Undone(b, start, end, piece, captured) ==
    [[b EXCEPT ![start[1]][start[2]] = piece] EXCEPT ![end[1]][end[2]] = captured]

\* A faulty end of is_legal_move_king: the simulated move is left on the board.
king_probe_kept(start, end, piece, captured, probe) ==
    Result(~probe.ret, probe.board, {start, end} \cup probe.written)

\* The end of is_legal_move_king: probe is what is_square_attacked did on the
\* board with the king on end; the move is undone on the board it left.
king_probe(start, end, piece, captured, probe) ==
    Result(~probe.ret, Undone(probe.board, start, end, piece, captured),
           {start, end} \cup probe.written)

is_legal_move_king(b, start, end, t) ==
    LET r1 == start[1]
        c1 == start[2]
        r2 == end[1]
        c2 == end[2]
        captured == b[r2][c2]
        opponent_color == IF t = "w" THEN "b" ELSE "w"
    IN  IF max(abs(r2 - r1), abs(c2 - c1)) > 1 THEN Result(FALSE, b, {})
        ELSE IF captured # "" /\ side_of(captured) = t THEN Result(FALSE, b, {})
        ELSE king_probe(start, end, b[r1][c1], captured,
                        is_square_attacked(Moved(b, start, end), end, opponent_color))

is_legal_move_basic(b, start, end, t) ==
    LET r1 == start[1]
        c1 == start[2]
        r2 == end[1]
        c2 == end[2]
    IN  IF ~(in_bounds(r1, c1) /\ in_bounds(r2, c2)) THEN Result(FALSE, b, {})
        ELSE
            LET piece == b[r1][c1]
                target == b[r2][c2]
            IN  IF piece = "" \/ side_of(piece) # t THEN Result(FALSE, b, {})
                ELSE IF target # "" /\ side_of(target) = t THEN Result(FALSE, b, {})
                ELSE IF r1 = r2 /\ c1 = c2 THEN Result(FALSE, b, {})
                ELSE CASE kind_of(piece) = "K" -> is_legal_move_king(b, start, end, t)
                       [] kind_of(piece) = "P" ->
                            Result(is_legal_move_pawn(b, start, end, t), b, {})
                       [] kind_of(piece) = "R" ->
                            Result(is_legal_move_rook(b, start, end, t), b, {})
                       [] kind_of(piece) = "N" ->
                            Result(is_legal_move_knight(b, start, end, t), b, {})
                       [] kind_of(piece) = "B" ->
                            Result(is_legal_move_bishop(b, start, end, t), b, {})
                       [] kind_of(piece) = "Q" ->
                            Result(is_legal_move_queen(b, start, end, t), b, {})

-----------------------------------------------------------------------------
(* Move execution *)

Outcome(r, b, history, captured_lists, w) ==
    [ret |-> r, board |-> b, move_history |-> history,
     captured_pieces |-> captured_lists, written |-> w]

\* A faulty step 4: a captured piece is filed under the mover's own key.
make_move_finalize_own_key(b, start, end, t, history, captured_lists, piece, captured, w) ==
    Outcome(TRUE, b, Append(history, format_move(start, end, piece)),
            IF captured # ""
            THEN [captured_lists EXCEPT ![t] = Append(@, captured)]
            ELSE captured_lists,
            w)

\* Step 4, "Finalize move", on the board b with the move made
make_move_finalize(b, start, end, t, history, captured_lists, piece, captured, w) ==
    Outcome(TRUE, b, Append(history, format_move(start, end, piece)),
            IF captured # ""
            THEN [captured_lists EXCEPT
                     ![IF t = "b" THEN "w" ELSE "b"] = Append(@, captured)]
            ELSE captured_lists,
            w)

\* A faulty step 3: a move that leaves the king in check is kept.
make_move_exposes_kept(check, start, end, t, history, captured_lists, piece, captured, w) ==
    make_move_finalize(check.board, start, end, t, history, captured_lists,
                       piece, captured, w \cup check.written)

\* Step 3: check is what is_king_in_check did on the board with the move made;
\* the move is undone if the king is in check.
make_move_exposes(check, start, end, t, history, captured_lists, piece, captured, w) ==
    IF check.ret
    THEN Outcome(FALSE, Undone(check.board, start, end, piece, captured),
                 history, captured_lists, w \cup check.written)
    ELSE make_move_finalize(check.board, start, end, t, history, captured_lists,
                            piece, captured, w \cup check.written)

\* Steps 1 and 2: basic is what is_legal_move_basic did on the board.
make_move_temporarily(basic, start, end, t, history, captured_lists) ==
    IF ~basic.ret
    THEN Outcome(FALSE, basic.board, history, captured_lists, basic.written)
    ELSE make_move_exposes(is_king_in_check(Moved(basic.board, start, end), t),
                           start, end, t, history, captured_lists,
                           basic.board[start[1]][start[2]],
                           basic.board[end[1]][end[2]],
                           basic.written \cup {start, end})

make_move(b, start, end, t, history, captured_lists) ==
    make_move_temporarily(is_legal_move_basic(b, start, end, t),
                          start, end, t, history, captured_lists)

-----------------------------------------------------------------------------
(* Search: move enumeration, evaluation, negamax *)

piece_values(piece) ==
    CASE piece = "wP" -> 100  [] piece = "wN" -> 300  [] piece = "wB" -> 330
      [] piece = "wR" -> 500  [] piece = "wQ" -> 900  [] piece = "wK" -> 0
      [] piece = "bP" -> -100 [] piece = "bN" -> -300 [] piece = "bB" -> -330
      [] piece = "bR" -> -500 [] piece = "bQ" -> -900 [] piece = "bK" -> 0
      [] OTHER -> 0

\* A new list of new rows: writing to it leaves b alone.
make_possible_move(b, start, end) ==
    [[b EXCEPT ![end[1]][end[2]] = b[start[1]][start[2]]]
        EXCEPT ![start[1]][start[2]] = ""]

color_letter(color) == IF color = 1 THEN "w" ELSE "b"

\* What all_moves hands back: the list, the caller's board as all_moves leaves
\* it, and the squares of the caller's board it assigned to on the way.
Listing(m, b, w) == [moves |-> m, board |-> b, written |-> w]

\* Two stretches of the loops of all_moves, one after the other.
Then(first, second) ==
    Listing(first.moves \o second.moves, second.board,
            first.written \cup second.written)

\* A faulty test of a move: the king safety check on temp_board is left out.
all_moves_keeps_unchecked(basic, start, end, piece_color) == basic.ret

\* The test of one move in all_moves: basic is what is_legal_move_basic did on
\* the caller's board, temp_board a new board with the move made.
all_moves_keeps(basic, start, end, piece_color) ==
    /\ basic.ret
    /\ ~is_king_in_check(make_possible_move(basic.board, start, end), piece_color).ret

\* The moves of the piece on start to the destinations numbered ends
MovesTo(start, ends) == [k \in 1 .. Len(ends) |-> <<start, SquareAt(ends[k])>>]

\* The loops over (r2, c2) for the piece on start, from destination number lo
\* on. Every turn works on the board the turn before left: the turns up to the
\* first one that leaves the caller's board changed all see b (tried holds what
\* is_legal_move_basic does in them), and the loop goes on from there on the
\* board that turn left.
RECURSIVE all_moves_to(_, _, _, _)
all_moves_rest(here, piece_color, start, hi) ==
    IF hi = LastSquare THEN here
    ELSE Then(here, all_moves_to(here.board, piece_color, start, hi + 1))

all_moves_upto(tried, piece_color, start, lo, hi) ==
    LET Kept(end) == all_moves_keeps(tried[end], start, SquareAt(end), piece_color)
    IN  all_moves_rest(
            Listing(MovesTo(start, SelectSeq([k \in 1 .. (hi - lo + 1) |-> lo + k - 1], Kept)),
                    tried[hi].board,
                    UNION {tried[end].written : end \in lo .. hi}),
            piece_color, start, hi)

all_moves_scan(b, tried, piece_color, start, lo) ==
    LET changed == {end \in lo .. LastSquare : tried[end].board # b}
    IN  all_moves_upto(tried, piece_color, start, lo,
                       IF changed = {} THEN LastSquare ELSE First(changed))

all_moves_to(b, piece_color, start, lo) ==
    all_moves_scan(b,
                   [end \in lo .. LastSquare |->
                        is_legal_move_basic(b, start, SquareAt(end), piece_color)],
                   piece_color, start, lo)

\* The loops over (r1, c1): the sources numbered lo .. hi, in order, each on the
\* board the one before left.
RECURSIVE all_moves_from(_, _, _, _)
all_moves_next(first, piece_color, mid, hi) ==
    Then(first, all_moves_from(first.board, piece_color, mid + 1, hi))

all_moves_from(b, piece_color, lo, hi) ==
    IF lo = hi
    THEN IF b[lo \div N][lo % N] # "" /\ side_of(b[lo \div N][lo % N]) = piece_color
         THEN all_moves_to(b, piece_color, SquareAt(lo), 0)
         ELSE Listing(<<>>, b, {})
    ELSE all_moves_next(all_moves_from(b, piece_color, lo, (lo + hi) \div 2),
                        piece_color, (lo + hi) \div 2, hi)

all_moves(b, color) == all_moves_from(b, color_letter(color), 0, LastSquare)

game_over(b, color) == all_moves(b, color).moves = <<>>

\* The sum over the squares numbered lo .. hi
RECURSIVE piece_val_range(_, _, _)
piece_val_range(board_state, lo, hi) ==
    IF lo = hi
    THEN LET square == board_state[lo \div N][lo % N]
         IN  IF square # "" THEN piece_values(square) ELSE 0
    ELSE LET mid == (lo + hi) \div 2
         IN  piece_val_range(board_state, lo, mid)
                + piece_val_range(board_state, mid + 1, hi)

piece_val_score(board_state) == piece_val_range(board_state, 0, LastSquare)

king_safety_score(board_state, color) ==
    LET king == IF color = 1 THEN "wK" ELSE "bK"
    IN  -20 * Cardinality({sq \in Squares :
                              /\ board_state[sq[1]][sq[2]] = king
                              /\ 3 <= sq[1] /\ sq[1] <= 6})

\* A faulty evaluate: the material score is not turned to the side's view.
evaluate_unsigned(board_state, color) ==
    piece_val_score(board_state) + king_safety_score(board_state, color)

evaluate(board_state, color) ==
    color * piece_val_score(board_state) + king_safety_score(board_state, color)

\* float('inf'): every score is smaller in absolute value.
Inf == 1000000

\* The state of a search loop: alpha, the best score (and, in bot_plays, the
\* move that gave it), and whether the loop has hit its break.
Loop(alpha, best_score, best_move, stop) ==
    [alpha |-> alpha, best_score |-> best_score, best_move |-> best_move, stop |-> stop]

RECURSIVE negamax(_, _, _, _, _)

\* The body of the for loop of negamax once the move has its score
negamax_scored(loop, beta, score) ==
    Loop(max(loop.alpha, score), max(loop.best_score, score), None,
         max(loop.alpha, score) >= beta)

\* The body of the for loop of negamax for the k-th move
negamax_at(b, move_list, k, depth, loop, beta, color) ==
    negamax_scored(loop, beta,
                   -negamax(make_possible_move(b, move_list[k][1], move_list[k][2]),
                            depth - 1, -beta, -loop.alpha, -color))

\* The for loop of negamax over the moves numbered lo .. hi, in order, up to
\* its break: first is the loop state after the moves up to number mid.
RECURSIVE negamax_loop(_, _, _, _, _, _, _, _)
negamax_second(b, move_list, mid, hi, depth, first, beta, color) ==
    IF first.stop THEN first
    ELSE negamax_loop(b, move_list, mid + 1, hi, depth, first, beta, color)

negamax_loop(b, move_list, lo, hi, depth, loop, beta, color) ==
    IF lo = hi THEN negamax_at(b, move_list, lo, depth, loop, beta, color)
    ELSE negamax_second(b, move_list, (lo + hi) \div 2, hi, depth,
                        negamax_loop(b, move_list, lo, (lo + hi) \div 2, depth,
                                     loop, beta, color),
                        beta, color)

\* negamax from its for loop on: listing is what all_moves did for the loop.
negamax_moves(listing, depth, alpha, beta, color) ==
    negamax_loop(listing.board, listing.moves, 1, Len(listing.moves), depth,
                 Loop(alpha, -Inf, None, FALSE), beta, color).best_score

\* negamax after depth == 0 is excluded: over is what all_moves did for
\* game_over.
negamax_over(over, depth, alpha, beta, color) ==
    IF over.moves = <<>> THEN evaluate(over.board, color)
    ELSE negamax_moves(all_moves(over.board, color), depth, alpha, beta, color)

negamax(b, depth, alpha, beta, color) ==
    IF depth = 0 THEN evaluate(b, color)
    ELSE negamax_over(all_moves(b, color), depth, alpha, beta, color)

\* The body of the for loop of bot_plays once the move has its score
bot_plays_scored(loop, beta, move, score) ==
    Loop(max(loop.alpha, score),
         IF score > loop.best_score THEN score ELSE loop.best_score,
         IF score > loop.best_score THEN move ELSE loop.best_move,
         max(loop.alpha, score) >= beta)

\* A faulty loop body of bot_plays: the window is negated but not swapped.
bot_plays_at_unswapped(b, move_list, k, depth, loop, beta, color) ==
    bot_plays_scored(loop, beta, move_list[k],
                     -negamax(make_possible_move(b, move_list[k][1], move_list[k][2]),
                              depth - 1, -loop.alpha, -beta, -color))

\* The body of the for loop of bot_plays for the k-th move
bot_plays_at(b, move_list, k, depth, loop, beta, color) ==
    bot_plays_scored(loop, beta, move_list[k],
                     -negamax(make_possible_move(b, move_list[k][1], move_list[k][2]),
                              depth - 1, -beta, -loop.alpha, -color))

\* The for loop of bot_plays over the moves numbered lo .. hi, in order, up to
\* its break: first is the loop state after the moves up to number mid.
RECURSIVE bot_plays_loop(_, _, _, _, _, _, _, _)
bot_plays_second(b, move_list, mid, hi, depth, first, beta, color) ==
    IF first.stop THEN first
    ELSE bot_plays_loop(b, move_list, mid + 1, hi, depth, first, beta, color)

bot_plays_loop(b, move_list, lo, hi, depth, loop, beta, color) ==
    IF lo = hi THEN bot_plays_at(b, move_list, lo, depth, loop, beta, color)
    ELSE bot_plays_second(b, move_list, (lo + hi) \div 2, hi, depth,
                          bot_plays_loop(b, move_list, lo, (lo + hi) \div 2, depth,
                                         loop, beta, color),
                          beta, color)

\* A faulty bot_plays: best_score starts from 0.
bot_plays_moves_from_zero(listing, depth, color) ==
    [best_move |->
        IF listing.moves = <<>> THEN None
        ELSE bot_plays_loop(listing.board, listing.moves, 1, Len(listing.moves),
                            depth, Loop(-Inf, 0, None, FALSE), Inf,
                            color).best_move,
     board |-> listing.board,
     written |-> listing.written]

\* bot_plays, listing being what all_moves did for its for loop
bot_plays_moves(listing, depth, color) ==
    [best_move |->
        IF listing.moves = <<>> THEN None
        ELSE bot_plays_loop(listing.board, listing.moves, 1, Len(listing.moves),
                            depth, Loop(-Inf, -Inf, None, FALSE), Inf,
                            color).best_move,
     board |-> listing.board,
     written |-> listing.written]

bot_plays(b, depth, color) == bot_plays_moves(all_moves(b, color), depth, color)

-----------------------------------------------------------------------------
(* Terminal-state classification *)

has_moves(listing) == [ret |-> Len(listing.moves) > 0, board |-> listing.board]

has_legal_moves(b, t) == has_moves(all_moves(b, IF t = "w" THEN 1 ELSE -1))

\* The side to move has no legal moves: check is what is_king_in_check did.
check_game_end_stuck(check, current_turn) ==
    [ret |-> TRUE,
     winner_text |-> IF check.ret
                     THEN "Checkmate! "
                            \o (IF current_turn = "b" THEN "White" ELSE "Black")
                            \o " wins!"
                     ELSE "Stalemate!",
     board |-> check.board]

\* Both kings are on the board: legal is what has_legal_moves did.
check_game_end_moves(legal, current_turn, old_winner_text) ==
    IF ~legal.ret
    THEN check_game_end_stuck(is_king_in_check(legal.board, current_turn), current_turn)
    ELSE [ret |-> FALSE, winner_text |-> old_winner_text, board |-> legal.board]

check_game_end(b, current_turn, old_winner_text) ==
    IF find_king(b, "w") = None
    THEN [ret |-> TRUE, winner_text |-> "Black wins (King Capture)!", board |-> b]
    ELSE IF find_king(b, "b") = None
    THEN [ret |-> TRUE, winner_text |-> "White wins (King Capture)!", board |-> b]
    ELSE check_game_end_moves(has_legal_moves(b, current_turn), current_turn,
                              old_winner_text)

-----------------------------------------------------------------------------
(* The main loop *)

ai_color == "b"

human_color == "w"

AI_DEPTH == 3

\* What taking a move leaves in the globals, and whether make_move accepted it
Taken(accepted, b, t, history, captured_lists, wt, ended) ==
    [accepted |-> accepted, board |-> b, turn |-> t, move_history |-> history,
     captured_pieces |-> captured_lists, winner_text |-> wt, game_ended |-> ended]

\* "if check_game_end(board, switch_turn(turn)): game_ended = True" and
\* "turn = switch_turn(turn)": m is what make_move did, over what
\* check_game_end did.
move_checked(m, over, t, ended) ==
    Taken(TRUE, over.board, switch_turn(t), m.move_history, m.captured_pieces,
          over.winner_text, ended \/ over.ret)

\* "if make_move(...):", m being what make_move did
move_made(m, t, wt, ended) ==
    IF m.ret
    THEN move_checked(m, check_game_end(m.board, switch_turn(t), wt), t, ended)
    ELSE Taken(FALSE, m.board, t, m.move_history, m.captured_pieces, wt, ended)

\* A move passed to make_move by the main loop, for the human or for the AI
move_taken(b, start, end, t, history, captured_lists, wt, ended) ==
    move_made(make_move(b, start, end, t, history, captured_lists), t, wt, ended)

\* A faulty AI turn: the squares of best_move are passed to make_move in the
\* wrong order.
ai_turn_move_backwards(res, t, history, captured_lists, wt, ended) ==
    [best_move |-> res.best_move,
     taken |-> IF res.best_move = None
               THEN Taken(FALSE, res.board, t, history, captured_lists, wt, TRUE)
               ELSE move_taken(res.board, res.best_move[2], res.best_move[1], t,
                               history, captured_lists, wt, ended)]

\* "if best_move: ... else: game_ended = True", res being what bot_plays did
ai_turn_move(res, t, history, captured_lists, wt, ended) ==
    [best_move |-> res.best_move,
     taken |-> IF res.best_move = None
               THEN Taken(FALSE, res.board, t, history, captured_lists, wt, TRUE)
               ELSE move_taken(res.board, res.best_move[1], res.best_move[2], t,
                               history, captured_lists, wt, ended)]

\* The AI turn of the main loop
ai_turn(b, t, history, captured_lists, wt, ended) ==
    ai_turn_move(bot_plays(b, AI_DEPTH, IF ai_color = "w" THEN 1 ELSE -1),
                 t, history, captured_lists, wt, ended)

-----------------------------------------------------------------------------
(* Inputs the functions are exercised on *)

\* Bounds of the input families.
OpeningPlies == 6

Reach == 2

Place(b, sq, piece) == [b EXCEPT ![sq[1]][sq[2]] = piece]

NoCaptures == [w |-> <<>>, b |-> <<>>]

Input(b, t, history, captured_lists) ==
    [board |-> b, turn |-> t, move_history |-> history, captured_pieces |-> captured_lists]

\* A game from the initial board, each move made by make_move:
\* 1. e4 d5 2. exd5 Qxd5 3. Nc3 Qe5+ 4. Be2 Bg4
Line == << <<<<6, 4>>, <<4, 4>>>>, <<<<1, 3>>, <<3, 3>>>>,
           <<<<4, 4>>, <<3, 3>>>>, <<<<0, 3>>, <<3, 3>>>>,
           <<<<7, 1>>, <<5, 2>>>>, <<<<3, 3>>, <<3, 4>>>>,
           <<<<7, 5>>, <<6, 4>>>>, <<<<0, 2>>, <<4, 6>>>> >>

SideAtPly(k) == IF k % 2 = 0 THEN "w" ELSE "b"

\* The input after a move: g the input before it, m what make_move did.
Played(g, m) == Input(m.board, switch_turn(g.turn), m.move_history, m.captured_pieces)

PlayedPly(g, k) ==
    Played(g, make_move(g.board, Line[k][1], Line[k][2], g.turn,
                        g.move_history, g.captured_pieces))

RECURSIVE Game(_)
Game(k) ==
    IF k = 0 THEN Input(create_initial_board, "w", <<>>, NoCaptures)
    ELSE PlayedPly(Game(k - 1), k)

OpeningInputs == {Game(k) : k \in 0 .. OpeningPlies}

\* White king on e1, a white piece in front of it, a black king and a black piece:
\* pins along the e-file and the a5-e1 diagonal, kings next to each other.
WhiteGuards == {"wR", "wB", "wN", "wP"}

GuardSquares == {<<6, 4>>, <<6, 3>>}

BlackAttackers == {"bR", "bB", "bQ", "bN"}

AttackerSquares == <<<<4, 4>>, <<4, 1>>, <<5, 3>>, <<5, 5>>>>

BlackKingSquares == {<<5, 4>>, <<0, 4>>}

PinBoards ==
    {Place(Place(Place(Place(EmptyBoard, <<7, 4>>, "wK"), bk, "bK"), xs, x),
           AttackerSquares[n], y) :
        bk \in BlackKingSquares, xs \in GuardSquares, x \in WhiteGuards,
        y \in BlackAttackers, n \in 1 .. Reach}

PinInputs == {Input(b, t, <<>>, NoCaptures) : b \in PinBoards, t \in {"w", "b"}}

MoveInputs == OpeningInputs \cup PinInputs

AttackInputs == OpeningInputs \cup PinInputs

\* A black king and queen around a white king in or near the corner a1, with or
\* without a white knight on c2, and the same boards with one of the kings
\* taken off: mates, stalemates, positions
\* that go on, and positions with a king captured.
Width == 2

CornerSquares == {<<7, 0>>, <<7, 1>>}

NearSquares == {sq \in Squares : sq[1] >= N - 1 - Width /\ sq[2] <= Width}

Extras == {"", "wN"}

CornerBoards ==
    {Place(Place(Place(Place(EmptyBoard, <<6, 2>>, x), wk, "wK"), bk, "bK"), bq, "bQ") :
        x \in Extras,
        wk \in CornerSquares,
        bk \in {sq \in NearSquares : sq[1] < N - 1},
        bq \in NearSquares}

KingTaken(b) ==
    {b} \cup {Place(b, find_king(b, t), "") : t \in {tt \in {"w", "b"} : find_king(b, tt) # None}}

EndBoards ==
    {b \in UNION {KingTaken(c) : c \in CornerBoards} :
        Cardinality({sq \in Squares : b[sq[1]][sq[2]] # ""}) >= 2}

EndInputs == {Input(b, t, <<>>, NoCaptures) : b \in EndBoards, t \in {"w", "b"}}

\* Search depths: up to MaxDepth on boards of at most DeepPieces pieces, up to
\* MaxDepth - 1 on the others.
MaxDepth == 3

DeepPieces == 3

Depths(b) ==
    IF Cardinality({sq \in Squares : b[sq[1]][sq[2]] # ""}) <= DeepPieces
    THEN 1 .. MaxDepth
    ELSE 1 .. (MaxDepth - 1)

\* Boards for the search: a white knight on d2 with two black pieces in its
\* reach, pins along the e-file and neighbouring kings with a white rook on e2,
\* and the corner boards with the black king on b3 (mate and stalemate among
\* them).
Prizes == {"bQ", "bR"}

TargetBoards ==
    {Place(Place(Place(Place(Place(EmptyBoard, <<7, 4>>, "wK"), <<0, 4>>, "bK"),
                       <<6, 3>>, "wN"), <<4, 4>>, y), <<5, 5>>, z) :
        y \in BlackAttackers, z \in Prizes}

SearchBoards ==
    TargetBoards
        \cup {b \in PinBoards : b[6][4] = "wR"}
        \cup {b \in CornerBoards :
                /\ b[7][0] = "wK" /\ b[5][1] = "bK" /\ b[6][2] = ""
                /\ \E sq \in Squares : b[sq[1]][sq[2]] = "bQ"}

SearchInputs == {Input(b, t, <<>>, NoCaptures) : b \in SearchBoards, t \in {"w", "b"}}

\* Boards for the static evaluation: the opening positions, the pin boards and
\* the corner boards, kings on and off the rows 3 to 6.
EvalInputs == OpeningInputs \cup PinInputs \cup EndInputs

\* Play from the position the opening line reaches, for PlayPlies more moves.
PlayPlies == 2

PlayInputs == {Game(OpeningPlies)}

\* Games of the human against the AI from the corner boards that have both
\* kings, at most DeepPieces pieces, the AI's king not in check (the AI has
\* just moved) and a legal move for the human (the game has not ended), the
\* human to move: the human moves while fewer than GamePlies moves were made,
\* and the AI answers every move.
GamePlies == 2

GameBoards ==
    {b \in CornerBoards :
        /\ Cardinality({sq \in Squares : b[sq[1]][sq[2]] # ""}) <= DeepPieces
        /\ find_king(b, human_color) # None
        /\ find_king(b, ai_color) # None
        /\ ~is_king_in_check(b, ai_color).ret
        /\ has_legal_moves(b, human_color).ret}

GameInputs == {Input(b, human_color, <<>>, NoCaptures) : b \in GameBoards}

-----------------------------------------------------------------------------
(* The callers: one function call per step *)

InitFrom(inputs) ==
    /\ \E g \in inputs :
          /\ board = g.board
          /\ turn = g.turn
          /\ move_history = g.move_history
          /\ captured_pieces = g.captured_pieces
    /\ winner_text = ""
    /\ legal_moves = <<>>
    /\ pc = "start"
    /\ call = [op |-> "none"]
    /\ ret = [ret |-> FALSE]
    /\ game_ended = FALSE
    /\ game_fsm_state = "select"
    /\ move_start = None

Init == InitFrom(MoveInputs)

\* legal_moves = all_moves(board, color) for the side to move
AllMoves ==
    /\ pc = "start"
    /\ \E listing \in {all_moves(board, IF turn = "w" THEN 1 ELSE -1)} :
           /\ legal_moves' = listing.moves
           /\ board' = listing.board
           /\ ret' = [moves |-> listing.moves, written |-> listing.written]
    /\ call' = [op |-> "all_moves", turn |-> turn, board |-> board]
    /\ pc' = "listed"
    /\ UNCHANGED <<turn, move_history, captured_pieces, winner_text>>
    /\ UNCHANGED main_loop

\* make_move(board, start, end, turn, move_history, captured_pieces)
MakeMove(start, end) ==
    /\ pc = "listed"
    /\ \E m \in {make_move(board, start, end, turn, move_history, captured_pieces)} :
           /\ board' = m.board
           /\ move_history' = m.move_history
           /\ captured_pieces' = m.captured_pieces
           /\ ret' = [ret |-> m.ret, written |-> m.written]
    /\ call' = [op |-> "make_move", start |-> start, end |-> end, turn |-> turn,
                board |-> board, move_history |-> move_history,
                captured_pieces |-> captured_pieces]
    /\ pc' = "make_move"
    /\ UNCHANGED <<turn, winner_text, legal_moves>>
    /\ UNCHANGED main_loop

\* all_moves(board, color) once more, on the board the first call left
AllMovesAgain ==
    /\ pc = "listed"
    /\ \E listing \in {all_moves(board, IF turn = "w" THEN 1 ELSE -1)} :
           /\ board' = listing.board
           /\ ret' = [moves |-> listing.moves, written |-> listing.written]
    /\ call' = [op |-> "all_moves", turn |-> turn, board |-> board]
    /\ pc' = "all_moves"
    /\ UNCHANGED <<turn, move_history, captured_pieces, winner_text, legal_moves>>
    /\ UNCHANGED main_loop

\* is_square_attacked(board, square, attacker_color)
IsSquareAttacked(square, attacker_color) ==
    /\ pc = "start"
    /\ \E res \in {is_square_attacked(board, square, attacker_color)} :
           /\ board' = res.board
           /\ ret' = [ret |-> res.ret, written |-> res.written]
    /\ call' = [op |-> "is_square_attacked", square |-> square,
                attacker_color |-> attacker_color, board |-> board]
    /\ pc' = "is_square_attacked"
    /\ UNCHANGED <<turn, move_history, captured_pieces, winner_text, legal_moves>>
    /\ UNCHANGED main_loop

\* check_game_end(board, current_turn), current_turn the side to move
CheckGameEnd ==
    /\ pc = "listed"
    /\ \E res \in {check_game_end(board, turn, winner_text)} :
           /\ board' = res.board
           /\ winner_text' = res.winner_text
           /\ ret' = [ret |-> res.ret]
    /\ call' = [op |-> "check_game_end", turn |-> turn, board |-> board,
                winner_text |-> winner_text]
    /\ pc' = "check_game_end"
    /\ UNCHANGED <<turn, move_history, captured_pieces, legal_moves>>
    /\ UNCHANGED main_loop

\* bot_plays(board, depth, color), color the side to move
BotPlays(depth) ==
    /\ pc = "listed"
    /\ \E res \in {bot_plays(board, depth, IF turn = "w" THEN 1 ELSE -1)} :
           /\ board' = res.board
           /\ ret' = [best_move |-> res.best_move, written |-> res.written]
    /\ call' = [op |-> "bot_plays", depth |-> depth, turn |-> turn, board |-> board]
    /\ pc' = "bot_plays"
    /\ UNCHANGED <<turn, move_history, captured_pieces, winner_text, legal_moves>>
    /\ UNCHANGED main_loop

\* evaluate(board, color) for either color
Evaluate(color) ==
    /\ pc = "start"
    /\ ret' = [score |-> evaluate(board, color)]
    /\ call' = [op |-> "evaluate", color |-> color, board |-> board]
    /\ pc' = "evaluate"
    /\ UNCHANGED <<board, turn, move_history, captured_pieces, winner_text, legal_moves>>
    /\ UNCHANGED main_loop

\* The globals after a move was passed to make_move
MoveTaken(taken) ==
    /\ board' = taken.board
    /\ turn' = taken.turn
    /\ move_history' = taken.move_history
    /\ captured_pieces' = taken.captured_pieces
    /\ winner_text' = taken.winner_text
    /\ game_ended' = taken.game_ended

\* A move of the side to move, any pair of squares: make_move and, if it
\* accepts, check_game_end for the other side and the change of turn.
TakeMove(start, end) ==
    /\ ~game_ended
    /\ Len(move_history) < OpeningPlies + PlayPlies
    /\ \E taken \in {move_taken(board, start, end, turn, move_history,
                                captured_pieces, winner_text, game_ended)} :
           /\ MoveTaken(taken)
           /\ ret' = [ret |-> taken.accepted]
    /\ call' = [op |-> "make_move", turn |-> turn, board |-> board]
    /\ pc' = "main"
    /\ UNCHANGED <<legal_moves, game_fsm_state, move_start>>

\* A click on the square (row, col) of the board
BoardClick(row, col) ==
    /\ ~game_ended
    /\ turn = human_color
    /\ Len(move_history) < GamePlies
    /\ IF game_fsm_state = "select"
       THEN /\ IF board[row][col] # "" /\ side_of(board[row][col]) = turn
               THEN move_start' = <<row, col>> /\ game_fsm_state' = "move"
               ELSE UNCHANGED <<move_start, game_fsm_state>>
            /\ ret' = [ret |-> FALSE]
            /\ UNCHANGED <<board, turn, move_history, captured_pieces, winner_text,
                           game_ended>>
       ELSE /\ \E taken \in {move_taken(board, move_start, <<row, col>>, turn,
                                        move_history, captured_pieces, winner_text,
                                        game_ended)} :
                   /\ MoveTaken(taken)
                   /\ ret' = [ret |-> taken.accepted]
            /\ game_fsm_state' = "select"
            /\ move_start' = None
    /\ call' = [op |-> "board_click", start |-> move_start, end |-> <<row, col>>,
                turn |-> turn, board |-> board]
    /\ pc' = "main"
    /\ UNCHANGED legal_moves

\* The AI turn: bot_plays at AI_DEPTH, then the move it returns through
\* make_move
AITurn ==
    /\ ~game_ended
    /\ turn = ai_color
    /\ \E done \in {ai_turn(board, turn, move_history, captured_pieces, winner_text,
                            game_ended)} :
           /\ MoveTaken(done.taken)
           /\ ret' = [ret |-> done.taken.accepted, best_move |-> done.best_move]
    /\ call' = [op |-> "ai_turn", turn |-> turn, board |-> board]
    /\ pc' = "main"
    /\ UNCHANGED <<legal_moves, game_fsm_state, move_start>>

\* The move path: all_moves, then make_move with any pair of squares.
Next ==
    \/ AllMoves
    \/ pc = "listed" /\ \E start \in Squares, end \in Squares : MakeMove(start, end)

Spec == Init /\ [][Next]_vars

\* The attack test on any square, for either color.
InitAttack == InitFrom(AttackInputs)

NextAttack ==
    pc = "start" /\ \E square \in Squares, attacker_color \in {"w", "b"} :
                        IsSquareAttacked(square, attacker_color)

SpecAttack == InitAttack /\ [][NextAttack]_vars

\* The classification of a position for the side to move.
InitEnd == InitFrom(EndInputs)

NextEnd ==
    \/ AllMoves
    \/ CheckGameEnd

SpecEnd == InitEnd /\ [][NextEnd]_vars

\* The search for the side to move, at every depth up to MaxDepth.
InitSearch == InitFrom(SearchInputs)

NextSearch ==
    \/ AllMoves
    \/ AllMovesAgain
    \/ \E depth \in Depths(board) : BotPlays(depth)

SpecSearch == InitSearch /\ [][NextSearch]_vars

\* The static evaluation of a board from either side's view.
InitEval == InitFrom(EvalInputs)

NextEval == pc = "start" /\ \E color \in {1, -1} : Evaluate(color)

SpecEval == InitEval /\ [][NextEval]_vars

\* Play by accepted moves, the sides alternating.
InitPlay == InitFrom(PlayInputs)

NextPlay == \E start \in Squares, end \in Squares : TakeMove(start, end)

SpecPlay == InitPlay /\ [][NextPlay]_vars

\* The main loop: the human's clicks on the board, and the AI's turns.
InitGame == InitFrom(GameInputs)

NextGame ==
    \/ \E row \in Rows, col \in Rows : BoardClick(row, col)
    \/ AITurn

SpecGame == InitGame /\ [][NextGame]_vars

-----------------------------------------------------------------------------
(* Attack by piece geometry *)

Sign(x) == IF x > 0 THEN 1 ELSE IF x < 0 THEN -1 ELSE 0

\* The squares strictly between two squares of one rank, file or diagonal
Between(from, to) ==
    LET dr == to[1] - from[1]
        dc == to[2] - from[2]
    IN  {<<from[1] + k * Sign(dr), from[2] + k * Sign(dc)>> :
            k \in 1 .. (max(abs(dr), abs(dc)) - 1)}

Open(b, from, to) == \A sq \in Between(from, to) : b[sq[1]][sq[2]] = ""

\* The piece on from attacks the square to: a pawn one step diagonally
\* forward, a knight at an L-shape offset, a rook, bishop or queen along an
\* open line, a king on an adjacent square.
Attacks(b, from, to) ==
    LET piece == b[from[1]][from[2]]
        dr == to[1] - from[1]
        dc == to[2] - from[2]
        straight == (dr = 0 \/ dc = 0) /\ Open(b, from, to)
        diagonal == abs(dr) = abs(dc) /\ Open(b, from, to)
    IN  /\ piece # ""
        /\ from # to
        /\ CASE kind_of(piece) = "P" ->
                    dr = (IF side_of(piece) = "w" THEN -1 ELSE 1) /\ abs(dc) = 1
             [] kind_of(piece) = "N" -> <<dr, dc>> \in knight_moves
             [] kind_of(piece) = "R" -> straight
             [] kind_of(piece) = "B" -> diagonal
             [] kind_of(piece) = "Q" -> straight \/ diagonal
             [] kind_of(piece) = "K" -> max(abs(dr), abs(dc)) = 1

Attacked(b, square, attacker_color) ==
    \E from \in Squares :
        /\ b[from[1]][from[2]] # ""
        /\ side_of(b[from[1]][from[2]]) = attacker_color
        /\ Attacks(b, from, square)

KingAttacked(b, t) ==
    \E sq \in Squares :
        /\ b[sq[1]][sq[2]] = (IF t = "w" THEN "wK" ELSE "bK")
        /\ Attacked(b, sq, switch_turn(t))

At(b, sq) == b[sq[1]][sq[2]]

Listed(move_list, start, end) ==
    \E k \in 1 .. Len(move_list) : move_list[k] = <<start, end>>

-----------------------------------------------------------------------------
(* Properties of make_move *)

\* C1: no move that make_move accepts leaves the mover's own king on a square
\* attacked by an enemy piece.
C1_KingNeverLeftAttacked ==
    (pc = "make_move" /\ ret.ret) => ~KingAttacked(board, call.turn)

\* C2: when make_move returns False, the board, move_history and
\* captured_pieces are equal to their values before the call, also when the
\* rejected move was a king move that is_legal_move_king simulated and undid.
C2_RejectedMoveChangesNothing ==
    (pc = "make_move" /\ ~ret.ret) =>
        /\ board = call.board
        /\ move_history = call.move_history
        /\ captured_pieces = call.captured_pieces

\* A king move into an attacked square, simulated on the board and rejected,
\* in a game with moves and captures on record.
C2_Witness ==
    /\ pc = "make_move"
    /\ ~ret.ret
    /\ kind_of(At(call.board, call.start)) = "K"
    /\ {call.start, call.end} \subseteq ret.written
    /\ call.move_history # <<>>
    /\ call.captured_pieces["w"] # <<>>

\* C3: make_move(board, start, end, turn, ...) returns True if and only if
\* (start, end) is in legal_moves, the list all_moves(board, color) returned
\* for the same side on the same board just before the call.
C3_CallSitesAgree ==
    /\ pc = "listed" => (legal_moves = ret.moves /\ board = call.board)
    /\ pc = "make_move" => (ret.ret <=> Listed(legal_moves, call.start, call.end))

\* A pinned piece leaves the line of the pin: geometrically legal, not listed,
\* rejected.
C3_Witness ==
    /\ pc = "make_move"
    /\ ~ret.ret
    /\ kind_of(At(call.board, call.start)) # "K"
    /\ is_legal_move_basic(call.board, call.start, call.end, call.turn).ret
    /\ ~Listed(legal_moves, call.start, call.end)
    /\ legal_moves # <<>>

\* C6: when make_move returns True, the piece that was on start is on end,
\* start is empty, every other square is unchanged, one record is appended to
\* move_history, and a piece that stood on end is appended once to
\* captured_pieces under the opponent's key, the lists being unchanged
\* otherwise.
C6_AcceptedMoveEffect ==
    (pc = "make_move" /\ ret.ret) =>
        LET piece == At(call.board, call.start)
            captured == At(call.board, call.end)
            opponent == switch_turn(call.turn)
        IN  /\ piece # ""
            /\ board = Place(Place(call.board, call.end, piece), call.start, "")
            /\ Len(move_history) = Len(call.move_history) + 1
            /\ SubSeq(move_history, 1, Len(call.move_history)) = call.move_history
            /\ captured # "" => /\ side_of(captured) = opponent
                                /\ captured_pieces =
                                     [call.captured_pieces EXCEPT
                                        ![opponent] = Append(@, captured)]
            /\ captured = "" => captured_pieces = call.captured_pieces

\* A capture, made in a game with moves and captures on record.
C6_Witness ==
    /\ pc = "make_move"
    /\ ret.ret
    /\ At(call.board, call.end) # ""
    /\ call.move_history # <<>>
    /\ call.captured_pieces["b"] # <<>>

-----------------------------------------------------------------------------
(* Properties of is_square_attacked *)

\* C4: is_square_attacked(board, square, attacker_color) returns True if and
\* only if a piece of attacker_color attacks the square by its piece geometry.
C4_AttackIsGeometry ==
    pc = "is_square_attacked" =>
        (ret.ret <=> Attacked(call.board, call.square, call.attacker_color))

-----------------------------------------------------------------------------
(* Properties of check_game_end *)

Present(b, piece) == \E sq \in Squares : At(b, sq) = piece

\* The classification of the board of the call, given whether the king of the
\* side to move is in check; legal_moves is all_moves for that side and board.
Classified(in_check) ==
    LET winner == IF call.turn = "b" THEN "White" ELSE "Black"
    IN  IF ~Present(call.board, "wK")
        THEN ret.ret /\ winner_text = "Black wins (King Capture)!"
        ELSE IF ~Present(call.board, "bK")
        THEN ret.ret /\ winner_text = "White wins (King Capture)!"
        ELSE
            /\ (ret.ret /\ winner_text = "Checkmate! " \o winner \o " wins!")
                    <=> (legal_moves = <<>> /\ in_check)
            /\ (ret.ret /\ winner_text = "Stalemate!")
                    <=> (legal_moves = <<>> /\ ~in_check)
            /\ (~ret.ret /\ winner_text = call.winner_text)
                    <=> legal_moves # <<>>

\* C5: check_game_end gives the King-Capture win when a king is missing;
\* otherwise Checkmate exactly when the side to move has no legal moves and its
\* king is in check (attacked by an enemy piece), Stalemate exactly when it has
\* no legal moves and its king is not in check, and False with winner_text
\* untouched exactly when it has a legal move.
C5_Classification ==
    pc = "check_game_end" => Classified(KingAttacked(call.board, call.turn))

\* The same classification with is_king_in_check as the meaning of "in check"
C5_ByOwnCheck ==
    pc = "check_game_end" => Classified(is_king_in_check(call.board, call.turn).ret)

-----------------------------------------------------------------------------
(* Properties of the search *)

Color(t) == IF t = "w" THEN 1 ELSE -1

Maximum(S) == CHOOSE x \in S : \A y \in S : y <= x

\* Negamax without pruning, over the same all_moves enumeration and the same
\* evaluate leaves.
RECURSIVE full_negamax(_, _, _)
full_negamax(b, depth, color) ==
    LET move_list == all_moves(b, color).moves
    IN  IF depth = 0 \/ move_list = <<>> THEN evaluate(b, color)
        ELSE Maximum({-full_negamax(make_possible_move(b, move_list[k][1], move_list[k][2]),
                                    depth - 1, -color) :
                        k \in 1 .. Len(move_list)})

\* The exact scores of the root moves of the call, in enumeration order
RootScores ==
    [k \in 1 .. Len(legal_moves) |->
        -full_negamax(make_possible_move(call.board, legal_moves[k][1], legal_moves[k][2]),
                      call.depth - 1, -Color(call.turn))]

\* The first root move whose exact score is the maximum
FirstBest ==
    LET scores == RootScores
        best == Maximum({scores[k] : k \in 1 .. Len(scores)})
    IN  legal_moves[First({k \in 1 .. Len(scores) : scores[k] = best})]

\* C7: bot_plays returns None if and only if all_moves(board, color) is empty,
\* and otherwise a member of all_moves(board, color), at every depth >= 1.
C7_NoneIffNoMoves ==
    pc = "bot_plays" =>
        /\ call.depth >= 1
        /\ ret.best_move = None <=> legal_moves = <<>>
        /\ legal_moves # <<>> =>
                Listed(legal_moves, ret.best_move[1], ret.best_move[2])

\* bot_plays called on a position with both kings and no legal move
C7_Witness ==
    /\ pc = "bot_plays"
    /\ call.depth > 1
    /\ ret.best_move = None
    /\ legal_moves = <<>>
    /\ Present(call.board, "wK") /\ Present(call.board, "bK")

\* C8: bot_plays returns the move a full-width negamax without pruning
\* returns: the first move in enumeration order whose exact negamax score is
\* the maximum over all legal root moves.
C8_SameAsFullWidth ==
    (pc = "bot_plays" /\ legal_moves # <<>>) => ret.best_move = FirstBest

\* The score bot_plays gets for the k-th root move when the moves before it
\* have been searched: alpha is the best exact score so far.
CutScore(k) ==
    LET scores == RootScores
        alpha == IF k = 1 THEN -Inf ELSE Maximum({scores[j] : j \in 1 .. (k - 1)})
    IN  -negamax(make_possible_move(call.board, legal_moves[k][1], legal_moves[k][2]),
                 call.depth - 1, -Inf, -alpha, -Color(call.turn))

\* A search in which a cutoff took place (a root move came back with a bound
\* instead of its exact score) and in which the maximum is reached twice, the
\* move returned not being the first of the list.
C8_Witness ==
    /\ pc = "bot_plays"
    /\ call.depth > 1
    /\ Len(legal_moves) > 1
    /\ ret.best_move # legal_moves[1]
    /\ LET scores == RootScores
           best == Maximum({scores[k] : k \in 1 .. Len(scores)})
       IN  /\ Cardinality({k \in 1 .. Len(scores) : scores[k] = best}) > 1
           /\ \E k \in 1 .. Len(scores) : CutScore(k) # scores[k]

\* C9: during all_moves and bot_plays the board passed in by the caller is
\* never written to, and it is unchanged when the call returns.
C9_NeverWritten ==
    pc \in {"listed", "all_moves", "bot_plays"} =>
        (ret.written = {} /\ board = call.board)

\* The squares a king of either side stands on or next to
KingZone(b) ==
    {sq \in Squares : \E k \in Squares :
        /\ At(b, k) \in {"wK", "bK"}
        /\ max(abs(sq[1] - k[1]), abs(sq[2] - k[2])) <= 1}

\* C9, amended: the board passed in by the caller is cell-for-cell unchanged
\* when all_moves or bot_plays returns, so that a second all_moves returns the
\* same sequence; in between, the only writes to it are king moves simulated
\* and undone in place.
C9_UnchangedAtReturn ==
    /\ pc \in {"listed", "all_moves", "bot_plays"} =>
            (board = call.board /\ ret.written \subseteq KingZone(call.board))
    /\ pc = "all_moves" => ret.moves = legal_moves

\* A second all_moves on a board the first one wrote to and restored
C9_Witness ==
    /\ pc = "all_moves"
    /\ ret.written # {}
    /\ ret.moves = legal_moves
    /\ legal_moves # <<>>
    /\ board = call.board

\* The material value of the piece a move captures
CapturedValue(b, move) == abs(piece_values(At(b, move[2])))

CapturesQueen(b, move) == At(b, move[2]) \in {"wQ", "bQ"}

\* C10: at depth 1, bot_plays returns a move whose captured piece has the
\* maximum material value among all legal moves of the side; where a legal
\* move captures an enemy queen, the move returned captures a queen.
C10_GreedyCapture ==
    (pc = "bot_plays" /\ call.depth = 1 /\ legal_moves # <<>>) =>
        /\ \A k \in 1 .. Len(legal_moves) :
                CapturedValue(call.board, ret.best_move)
                    >= CapturedValue(call.board, legal_moves[k])
        /\ (\E k \in 1 .. Len(legal_moves) : CapturesQueen(call.board, legal_moves[k]))
                => CapturesQueen(call.board, ret.best_move)

\* A queen and a lesser piece can both be captured, the lesser one by a move
\* listed earlier; the queen is taken.
C10_Witness ==
    /\ pc = "bot_plays"
    /\ call.depth = 1
    /\ CapturesQueen(call.board, ret.best_move)
    /\ \E j \in 1 .. Len(legal_moves) :
            /\ legal_moves[j] = ret.best_move
            /\ \E k \in 1 .. (j - 1) :
                    /\ At(call.board, legal_moves[k][2]) # ""
                    /\ ~CapturesQueen(call.board, legal_moves[k])

\* C12: the static evaluation is zero-sum: the score of a board from one
\* side's view is the negation of its score from the other side's view.
C12_ZeroSum ==
    pc = "evaluate" => ret.score = -evaluate(call.board, -call.color)

\* A king move whose destination is next to the other side's king
NextToEnemyKing(b, start, end) ==
    /\ kind_of(At(b, start)) = "K"
    /\ \E k \in Squares :
          /\ At(b, k) # ""
          /\ kind_of(At(b, k)) = "K"
          /\ side_of(At(b, k)) # side_of(At(b, start))
          /\ max(abs(end[1] - k[1]), abs(end[2] - k[2])) = 1

\* C14: neither make_move nor all_moves admits a king move whose destination
\* is adjacent to the enemy king, whether or not the destination is defended.
C14_KingsNeverAdjacent ==
    /\ pc = "listed" =>
          \A k \in 1 .. Len(legal_moves) :
              ~NextToEnemyKing(call.board, legal_moves[k][1], legal_moves[k][2])
    /\ (pc = "make_move" /\ ret.ret) =>
          ~NextToEnemyKing(call.board, call.start, call.end)

\* The squares the kings of a color stand on
Kings(b, t) == {sq \in Squares : At(b, sq) = (IF t = "w" THEN "wK" ELSE "bK")}

\* C13: in every state reached from the initial board by accepted make_move
\* calls, the sides alternating, each color has exactly one king on the board,
\* and check_game_end has not taken its King-Capture branch.
C13_OneKingEach ==
    /\ Cardinality(Kings(board, "w")) = 1
    /\ Cardinality(Kings(board, "b")) = 1
    /\ winner_text \notin {"Black wins (King Capture)!", "White wins (King Capture)!"}

\* Every move of the opening line and PlayPlies more were accepted, and the last
\* one attacks the king of the side now to move, which is still on the board.
C13_Witness ==
    /\ pc = "main"
    /\ ret.ret
    /\ Len(move_history) = OpeningPlies + PlayPlies
    /\ KingAttacked(board, turn)
    /\ Cardinality(Kings(board, turn)) = 1

\* C11: every AI turn makes progress. A step taken when game_ended is false and
\* turn is ai_color leaves the move returned by bot_plays applied through
\* make_move and the turn with the human, or game_ended true; it never leaves
\* the same board with the AI still to move. The turn changes only in a step
\* in which make_move returned True.
C11_AITurnProgress ==
    [][/\ (~game_ended /\ turn = ai_color) =>
            /\ \/ game_ended'
               \/ /\ turn' = human_color
                  /\ ret'.ret
                  /\ ret'.best_move # None
                  /\ board' = make_possible_move(board, ret'.best_move[1],
                                                 ret'.best_move[2])
            /\ ~(board' = board /\ turn' = ai_color /\ ~game_ended')
       /\ turn' # turn => (ret'.ret /\ board' # board)]_vars

\* An AI turn after a move of the human: the move bot_plays returned is on the
\* board, the game goes on and the human is to move.
C11_Witness ==
    /\ pc = "main"
    /\ call.op = "ai_turn"
    /\ call.turn = ai_color
    /\ ret.ret
    /\ board = make_possible_move(call.board, ret.best_move[1], ret.best_move[2])
    /\ turn = human_color
    /\ ~game_ended
    /\ Len(move_history) = 2

====
